---- MODULE Spec2Model ----
(***************************************************************************)
(* State-machine model of pyro/contrib/outbreak/sir.py (class SIRModel).   *)
(*                                                                         *)
(* Compartment counts (S, I, S2I, I2R) are exact whole numbers and are     *)
(* modelled as integers.  The arithmetic of heuristic() is floating-point  *)
(* arithmetic on tensors; a float is modelled as a record                  *)
(*     [k |-> "fin", v |-> n]   the finite value n / Scale                 *)
(*     [k |-> "inf", v |-> s]   the infinity of sign s (1 or -1)           *)
(*     [k |-> "nan", v |-> 0]   not-a-number                               *)
(* with the IEEE-754 rules for division by zero, inf and nan.  A tensor is *)
(* a sequence of floats (1-based here, 0-based in the source).             *)
(* Probabilities are exact symbolic values                                 *)
(*     [form |-> "ratio", num, den]   num / den                            *)
(*     [form |-> "expm1", num, den]   1 - exp(-num / den)                  *)
(* in lowest terms, so that equal records denote equal probabilities.      *)
(***************************************************************************)
EXTENDS Integers, Sequences, FiniteSets, TLC

\* ---------------------------------------------------------------- bounds
MaxPop == 3        \* populations 1..MaxPop
MaxDur == 2        \* data of 1..MaxDur entries
MaxObs == 2        \* observed counts 0..MaxObs
Forecast == 1      \* forward steps taken beyond the observed horizon
MaxCalls == 2      \* calls of heuristic() that are counted
Scale == 1000      \* a finite float v/Scale is kept to 1/Scale

\* ------------------------------------------------------ integer helpers
Max(a, b) == IF a >= b THEN a ELSE b
Min(a, b) == IF a <= b THEN a ELSE b
Abs(a) == IF a < 0 THEN -a ELSE a

RECURSIVE GCD(_, _)
GCD(a, b) == IF b = 0 THEN a ELSE GCD(b, a % b)

\* integer square root: the largest r with r * r <= n (Newton iteration)
RECURSIVE NewtonSqrt(_, _)
NewtonSqrt(n, x) ==
  LET y == (x + n \div x) \div 2
  IN IF y >= x THEN x ELSE NewtonSqrt(n, y)

ISqrt(n) == IF n <= 0 THEN 0 ELSE NewtonSqrt(n, n)

\* ------------------------------------------------------------- floats
Fin(v) == [k |-> "fin", v |-> v]
Inf(s) == [k |-> "inf", v |-> s]
NaN == [k |-> "nan", v |-> 0]
Fix(n) == Fin(n * Scale)          \* the float holding the whole number n

IsFinite(a) == a.k = "fin"
Sign(n) == IF n > 0 THEN 1 ELSE IF n < 0 THEN -1 ELSE 0

\* a < b as Python/torch evaluate it: False whenever either side is nan
FLess(a, b) ==
  IF a.k = "nan" \/ b.k = "nan" THEN FALSE
  ELSE IF a.k = "inf" THEN a.v = -1 /\ ~(b.k = "inf" /\ b.v = -1)
  ELSE IF b.k = "inf" THEN b.v = 1
  ELSE a.v < b.v

FNeg(a) == IF a.k = "nan" THEN NaN ELSE [k |-> a.k, v |-> -a.v]

FAdd(a, b) ==
  IF a.k = "nan" \/ b.k = "nan" THEN NaN
  ELSE IF a.k = "inf" /\ b.k = "inf" THEN (IF a.v = b.v THEN a ELSE NaN)
  ELSE IF a.k = "inf" THEN a
  ELSE IF b.k = "inf" THEN b
  ELSE Fin(a.v + b.v)

FSub(a, b) == FAdd(a, FNeg(b))

FMul(a, b) ==
  IF a.k = "nan" \/ b.k = "nan" THEN NaN
  ELSE IF a.k = "inf" \/ b.k = "inf"
       THEN (IF Sign(a.v) * Sign(b.v) = 0 THEN NaN
             ELSE Inf(Sign(a.v) * Sign(b.v)))
  ELSE Fin((a.v * b.v) \div Scale)

\* true division; x / 0 is +-inf, 0 / 0 is nan, nothing is raised
FDiv(a, b) ==
  IF a.k = "nan" \/ b.k = "nan" THEN NaN
  ELSE IF a.k = "inf" THEN (IF b.k = "inf" THEN NaN
                            ELSE Inf(a.v * (IF b.v < 0 THEN -1 ELSE 1)))
  ELSE IF b.k = "inf" THEN Fin(0)
  ELSE IF b.v = 0 THEN (IF a.v = 0 THEN NaN ELSE Inf(Sign(a.v)))
  ELSE Fin((a.v * Scale) \div b.v)

FSqrt(a) ==
  IF a.k = "nan" THEN NaN
  ELSE IF a.k = "inf" THEN (IF a.v = 1 THEN a ELSE NaN)
  ELSE IF a.v < 0 THEN NaN
  ELSE Fin(ISqrt(a.v * Scale))

\* exp(-y / Scale) for y >= 0, in units of 1 / Scale
RECURSIVE ExpSeries(_, _, _, _)
ExpSeries(f, j, term, acc) ==
  IF term = 0 \/ j > 12 THEN acc
  ELSE LET next == (term * f) \div (j * Scale)
       IN ExpSeries(f, j + 1, next,
                    IF j % 2 = 1 THEN acc - next ELSE acc + next)

RECURSIVE EulerSeries(_, _, _)
EulerSeries(j, term, acc) ==
  IF term = 0 THEN acc ELSE EulerSeries(j + 1, term \div j, acc + term \div j)

EInv == (Scale * Scale) \div EulerSeries(1, Scale, Scale)   \* exp(-1)

RECURSIVE ExpNegWhole(_, _)
ExpNegWhole(n, acc) ==
  IF n = 0 \/ acc = 0 THEN acc ELSE ExpNegWhole(n - 1, (acc * EInv) \div Scale)

ExpNeg(y) ==
  ExpNegWhole(y \div Scale, Max(0, ExpSeries(y % Scale, 1, Scale, Scale)))

FExp(a) ==
  IF a.k = "nan" THEN NaN
  ELSE IF a.k = "inf" THEN (IF a.v = 1 THEN a ELSE Fin(0))
  ELSE IF a.v <= 0 THEN Fin(ExpNeg(-a.v))
  ELSE LET d == ExpNeg(a.v) IN IF d = 0 THEN Inf(1) ELSE Fin((Scale * Scale) \div d)

\* min with its arguments taken in the other order: a nan second argument wins
PyMin_swapped(a, b) == IF FLess(a, b) THEN a ELSE b

\* Python's builtin min(a, b): b only when b < a, otherwise the first argument
PyMin(a, b) == IF FLess(b, a) THEN b ELSE a

\* Tensor.clamp(min=m): nan stays nan
FClampMin(a, m) == IF a.k = "nan" THEN a ELSE IF FLess(a, m) THEN m ELSE a


\* ------------------------------------------------------------ tensors
RECURSIVE SumTo(_, _)
SumTo(x, n) == IF n = 0 THEN Fix(0) ELSE FAdd(SumTo(x, n - 1), x[n])

TensorSum(x) == SumTo(x, Len(x))                             \* x.sum()
Cumsum(x) == [i \in 1..Len(x) |-> SumTo(x, i)]               \* x.cumsum(-1)
ClampMin(x, m) == [i \in 1..Len(x) |-> FClampMin(x[i], m)]   \* x.clamp(min=m)

\* pyro.ops.tensor_utils.convolve(signal, kernel), mode "full":
\* out[i] = sum over j of signal[j] * kernel[i - j], Len = m + n - 1
RECURSIVE ConvTerm(_, _, _, _)
ConvTerm(signal, kernel, i, j) ==
  IF j = 0 THEN Fix(0)
  ELSE LET rest == ConvTerm(signal, kernel, i, j - 1)
       IN IF i - j + 1 >= 1 /\ i - j + 1 <= Len(kernel)
          THEN FAdd(rest, FMul(signal[j], kernel[i - j + 1]))
          ELSE rest

ConvLen(signal, kernel) == Len(signal) + Len(kernel) - 1

convolve(signal, kernel) ==
  [i \in 1..ConvLen(signal, kernel) |->
     ConvTerm(signal, kernel, i, Min(i, Len(signal)))]

\* convolve(signal, kernel)[:n], only the entries kept being computed
ConvolveTake(signal, kernel, n) ==
  [i \in 1..Min(n, ConvLen(signal, kernel)) |-> convolve(signal, kernel)[i]]

\* ------------------------------------------------------- probabilities
Ratio(n, d) ==
  LET g == GCD(Abs(n), Abs(d))
  IN [form |-> "ratio", num |-> n \div g, den |-> d \div g]

Expm1Neg(n, d) ==                              \* 1 - exp(-n / d), n >= 0
  LET g == GCD(Abs(n), Abs(d))
  IN [form |-> "expm1", num |-> n \div g, den |-> d \div g]

IsZeroProb(p) == p.num = 0
IsOneProb(p) == p.form = "ratio" /\ p.num = p.den

\* the values a Binomial(n, p) draw can take
BinomialSupport(n, p) ==
  IF IsZeroProb(p) THEN {0} ELSE IF IsOneProb(p) THEN {n} ELSE 0..n

\* ------------------------------------------------------------- inputs
KernelLen == 30                  \* torch.arange(30.)
Half == Fin(Scale \div 2)        \* the floor 0.5 of the clamps

PyFloat(n, d) == [type |-> "float", num |-> n, den |-> d]
PyInt(n) == [type |-> "int", num |-> n, den |-> 1]

RecoveryTimes ==
  {PyFloat(1, 1), PyFloat(2, 1), PyFloat(0, 1), PyFloat(-1, 1), PyInt(10), PyInt(0)}
Tensors ==
  UNION {[1..n -> {Fix(c) : c \in 0..MaxObs}] : n \in 1..MaxDur}
R0Set == {1, 2}                  \* values drawn for R0
RhoSet == {Ratio(1, 2)}          \* the value drawn for rho

IsSet(x) == DOMAIN x # {}                \* x has been assigned
None == <<>>

VARIABLES
  args,       \* the arguments of SIRModel(population, recovery_time, data)
  pc,         \* "new", "constructed" or "failed"
  self,       \* the attributes set on the model so far
  error,      \* the exception raised, "" when none
  params,     \* what global_model returned
  state,      \* the compartment state the engine carries
  prev,       \* the state before the last transition_fwd
  t,          \* the index of the next forward step
  sites,      \* the sample sites the last transition_fwd declared
  fwdRead,    \* the index of data the last transition_fwd read, -1 if none
  bwd,        \* the terms of the last transition_bwd result
  heur,       \* what the last heuristic() returned
  heurCalls   \* calls of heuristic() so far

vars == <<args, pc, self, error, params, state, prev, t, sites, fwdRead,
          bwd, heur, heurCalls>>

Init ==
  /\ args \in [population : 1..MaxPop, recovery_time : RecoveryTimes,
               data : Tensors]
  /\ pc = "new"
  /\ self = None
  /\ error = ""
  /\ params = None
  /\ state = None
  /\ prev = None
  /\ t = 0
  /\ sites = None
  /\ fwdRead = -1
  /\ bwd = None
  /\ heur = None
  /\ heurCalls = 0

\* ------------------------------------------------------------ __init__
\* CompartmentalModel.__init__(compartments, duration, population)
CompartmentalModelInit(compartments, duration, population) ==
  [compartments |-> compartments, duration |-> duration,
   population |-> population]

\* a check that accepts any real number
IsFloatInstance_real(x) == x.type \in {"float", "int"}

IsFloatInstance(x) == x.type = "float"       \* isinstance(x, float)
IsPositive(x) == x.num * x.den > 0           \* x > 0

Construct ==
  /\ pc = "new"
  /\ LET base == CompartmentalModelInit(<<"S", "I">>, Len(args.data),
                                        args.population)
     IN IF IsFloatInstance(args.recovery_time)
           /\ IsPositive(args.recovery_time)
        THEN /\ self' = base @@ [recovery_time |-> args.recovery_time,
                                 data |-> args.data]
             /\ pc' = "constructed"
             /\ error' = ""
        ELSE /\ self' = base
             /\ pc' = "failed"
             /\ error' = "AssertionError"
  /\ UNCHANGED <<args, params, state, prev, t, sites, fwdRead, bwd, heur,
                 heurCalls>>

\* -------------------------------------------------------- global_model
\* rate_s = -R0 / (tau * population), an exact fraction num / den
RateS(R0, tau, population) ==
  LET n == -R0 * tau.den
      d == tau.num * population
      g == GCD(Abs(n), Abs(d))
  IN [num |-> n \div g, den |-> d \div g]

ProbI(tau) == Ratio(tau.den, tau.den + tau.num)      \* 1 / (1 + tau)

global_model(R0, rho) ==
  [rate_s |-> RateS(R0, self.recovery_time, self.population),
   prob_i |-> ProbI(self.recovery_time),
   rho |-> rho]

GlobalModel ==
  /\ pc = "constructed" /\ error = ""
  /\ ~IsSet(params)
  /\ \E R0 \in R0Set, rho \in RhoSet : params' = global_model(R0, rho)
  /\ UNCHANGED <<args, pc, self, error, state, prev, t, sites, fwdRead, bwd,
                 heur, heurCalls>>

\* ---------------------------------------------------------- initialize
\* no seed infection taken out of S
initialize_noseed(p) == [S |-> self.population, I |-> 1]

initialize(p) == [S |-> self.population - 1, I |-> 1]

Initialize ==
  /\ pc = "constructed" /\ error = ""
  /\ IsSet(params) /\ ~IsSet(state)
  /\ state' = initialize(params)
  /\ UNCHANGED <<args, pc, self, error, params, prev, t, sites, fwdRead, bwd,
                 heur, heurCalls>>

\* ------------------------------------------------------ transition_fwd
\* prob_s = -(rate_s * I).expm1() = 1 - exp(rate_s * I)
ProbS(rate_s, I) == Expm1Neg(-rate_s.num * I, rate_s.den)

\* I2R drawn after the infections of the step were added to I
transition_fwd_draws_late(p, st) ==
  LET prob_s == ProbS(p.rate_s, st.I)
  IN UNION {{[S2I |-> a, nS |-> st.S, pS |-> prob_s,
              I2R |-> b, nI |-> st.I + a, pI |-> p.prob_i] :
               b \in BinomialSupport(st.I + a, p.prob_i)} :
            a \in BinomialSupport(st.S, prob_s)}

\* the two Binomial draws of one step, with the arguments they were drawn at
transition_fwd_draws(p, st) ==
  LET prob_s == ProbS(p.rate_s, st.I)
  IN {[S2I |-> a, nS |-> st.S, pS |-> prob_s,
       I2R |-> b, nI |-> st.I, pI |-> p.prob_i] :
        a \in BinomialSupport(st.S, prob_s),
        b \in BinomialSupport(st.I, p.prob_i)}

\* new infections added to S
StateUpdate_plus(st, S2I, I2R) == [S |-> st.S + S2I, I |-> st.I + S2I - I2R]

\* state["S"] = state["S"] - S2I;  state["I"] = state["I"] + S2I - I2R
StateUpdate(st, S2I, I2R) == [S |-> st.S - S2I, I |-> st.I + S2I - I2R]

\* off by one: the step at t = duration is conditioned too
ObsIsConditioned_le(step) == step <= self.duration

\* t < self.duration: the step is conditioned on data[t]
ObsIsConditioned(step) == step < self.duration

Site(name, step, dist, n, p, v, observed) ==
  [name |-> <<name, step>>, dist |-> dist, n |-> n, p |-> p, v |-> v,
   observed |-> observed]

TransitionFwd ==
  /\ pc = "constructed" /\ error = ""
  /\ IsSet(params) /\ IsSet(state)
  /\ t < self.duration + Forecast
  /\ \E d \in transition_fwd_draws(params, state) :
       LET drawn == [S2I |-> Site("S2I", t, "Binomial", d.nS, d.pS, d.S2I,
                                  FALSE),
                     I2R |-> Site("I2R", t, "Binomial", d.nI, d.pI, d.I2R,
                                  FALSE)]
       IN /\ prev' = state
          /\ state' = StateUpdate(state, d.S2I, d.I2R)
          /\ IF ObsIsConditioned(t)
             THEN /\ fwdRead' = t
                  /\ IF t < Len(self.data)
                     THEN /\ sites' = drawn @@
                               [obs |-> Site("obs", t, "ExtendedBinomial",
                                             d.S2I, params.rho,
                                             self.data[t + 1], TRUE)]
                          /\ error' = ""
                     ELSE /\ sites' = drawn
                          /\ error' = "IndexError"
             ELSE /\ fwdRead' = -1
                  /\ \E k \in BinomialSupport(d.S2I, params.rho) :
                       sites' = drawn @@
                         [obs |-> Site("obs", t, "ExtendedBinomial", d.S2I,
                                       params.rho, Fix(k), FALSE)]
                  /\ error' = ""
  /\ t' = t + 1
  /\ bwd' = None
  /\ UNCHANGED <<args, pc, self, params, heur, heurCalls>>

\* ------------------------------------------------------ transition_bwd
BwdS2I(pr, cu) == pr.S - cu.S                  \* prev["S"] - curr["S"]
BwdI2R_noS2I(pr, cu, S2I) == pr.I - cu.I      \* the new infections left out
BwdI2R(pr, cu, S2I) == pr.I - cu.I + S2I       \* prev["I"] - curr["I"] + S2I

Term(dist, n, p, v) == [dist |-> dist, n |-> n, p |-> p, v |-> v]

\* prob_s computed from the state after the step
transition_bwd_curr(p, pr, cu, step) ==
  LET obs == self.data[step + 1]
      S2I == BwdS2I(pr, cu)
      I2R == BwdI2R(pr, cu, S2I)
      prob_s == ProbS(p.rate_s, cu.I)
  IN [S2I |-> Term("ExtendedBinomial", pr.S, prob_s, S2I),
      I2R |-> Term("ExtendedBinomial", pr.I, p.prob_i, I2R),
      obs |-> Term("ExtendedBinomial", Max(S2I, 0), p.rho, obs)]

\* the three log_prob terms whose sum transition_bwd returns
transition_bwd(p, pr, cu, step) ==
  LET obs == self.data[step + 1]
      S2I == BwdS2I(pr, cu)
      I2R == BwdI2R(pr, cu, S2I)
      prob_s == ProbS(p.rate_s, pr.I)
  IN [S2I |-> Term("ExtendedBinomial", pr.S, prob_s, S2I),
      I2R |-> Term("ExtendedBinomial", pr.I, p.prob_i, I2R),
      obs |-> Term("ExtendedBinomial", Max(S2I, 0), p.rho, obs)]

\* the engine scores the step just sampled; it does so only within the
\* observed horizon
TransitionBwd ==
  /\ pc = "constructed" /\ error = ""
  /\ IsSet(sites) /\ ~IsSet(bwd)
  /\ t - 1 < self.duration
  /\ bwd' = transition_bwd(params, prev, state, t - 1)
  /\ UNCHANGED <<args, pc, self, error, params, state, prev, t, sites,
                 fwdRead, heur, heurCalls>>

\* ----------------------------------------------------------- heuristic
\* Tensors live in a heap, ref |-> contents; an in-place operation writes
\* to the ref it is applied to, every other operation allocates a new ref.

\* x.mul_(c): the product overwrites x
TensorMul_inplace(heap, ref, c, new) ==
  [ref |-> ref,
   heap |-> [heap EXCEPT ![ref] = [i \in 1..Len(@) |-> FMul(@[i], c)]]]

\* x * c: the product is a new tensor
TensorMul(heap, ref, c, new) ==
  [ref |-> new,
   heap |-> heap @@ (new :> [i \in 1..Len(heap[ref]) |-> FMul(heap[ref][i], c)])]

\* x[i] += c, in place (i is the 0-based index of the source)
IndexAdd(heap, ref, i, c) ==
  [heap EXCEPT ![ref][i + 1] = FAdd(@, c)]

\* min(2., (S0 / self.data.sum()).sqrt())
ResponseScale(S0, data) == PyMin(Fix(2), FSqrt(FDiv(Fix(S0), TensorSum(data))))

\* the floor of the clamp at 0 instead of 0.5
SAux_floor0(S0, S2I) ==
  ClampMin([i \in 1..Len(S2I) |-> FSub(Fix(S0), Cumsum(S2I)[i])], Fix(0))

\* (S0 - S2I.cumsum(-1)).clamp(min=0.5)
SAux(S0, S2I) ==
  ClampMin([i \in 1..Len(S2I) |-> FSub(Fix(S0), Cumsum(S2I)[i])], Half)

\* torch.arange(30.).div(self.recovery_time).neg().exp()
RecoveryKernel(tau) ==
  [i \in 1..KernelLen |->
     FExp(FNeg(FDiv(Fix(i - 1), Fin((tau.num * Scale) \div tau.den))))]

\* convolve(S2I, recovery)[:len(self.data)].clamp(min=0.5)
IAux(S2I, recovery, n) == ClampMin(ConvolveTake(S2I, recovery, n), Half)

\* the returned mapping, and the heap the call leaves behind
heuristic(heap0) ==
  LET S0 == self.population - 1
      mul == TensorMul(heap0, "data", ResponseScale(S0, heap0["data"]), "S2I")
      S_aux == SAux(S0, mul.heap[mul.ref])
      heap2 == IndexAdd(mul.heap, mul.ref, 0, Fix(1))
      recovery == RecoveryKernel(self.recovery_time)
      I_aux == IAux(heap2[mul.ref], recovery, Len(heap2["data"]))
  IN [result |-> [R0 |-> Fix(2), rho |-> Half,
                  auxiliary |-> <<S_aux, I_aux>>],
      heap |-> heap2]

\* the engine calls heuristic() before inference starts
Heuristic ==
  /\ pc = "constructed" /\ error = ""
  /\ ~IsSet(params)
  /\ heurCalls < MaxCalls
  /\ LET call == heuristic("data" :> self.data)
     IN /\ heur' = call.result
        /\ self' = [self EXCEPT !.data = call.heap["data"]]
  /\ heurCalls' = heurCalls + 1
  /\ UNCHANGED <<args, pc, error, params, state, prev, t, sites, fwdRead,
                 bwd>>

Next ==
  \/ Construct
  \/ GlobalModel
  \/ Initialize
  \/ TransitionFwd
  \/ TransitionBwd
  \/ Heuristic

Spec == Init /\ [][Next]_vars

\* ============================================================ properties
Recovered(st) == self.population - st.S - st.I      \* the implicit R
FGeq(a, b) == a.k # "nan" /\ b.k # "nan" /\ ~FLess(a, b)
AllZero(x) == \A i \in 1..Len(x) : x[i] = Fix(0)

\* C1: after initialize and after every transition_fwd step the state has
\* S >= 0, I >= 0 and the implicit R = population - S - I >= 0, so that
\* S + I + R = population.
C1_ClosedPopulation ==
  IsSet(state) =>
    /\ state.S >= 0
    /\ state.I >= 0
    /\ Recovered(state) >= 0
    /\ state.S + state.I + Recovered(state) = self.population

C1_Witness ==
  /\ IsSet(state) /\ t >= 2
  /\ state.S >= 1 /\ state.I >= 1 /\ Recovered(state) >= 1

\* C2: the S2I and I2R that transition_bwd reconstructs from the states
\* before and after a forward step are the values transition_fwd drew.
C2_RoundTrip ==
  IsSet(sites) =>
    /\ BwdS2I(prev, state) = sites.S2I.v
    /\ BwdI2R(prev, state, BwdS2I(prev, state)) = sites.I2R.v

C2_Witness ==
  IsSet(sites) /\ sites.S2I.v >= 1 /\ sites.I2R.v >= 1 /\ t >= 2

\* C3: for a forward-sampled step within the horizon, the terms summed by
\* transition_bwd are the three sites transition_fwd declared, each with
\* the same total count, probability and value: (prev.S, prob_s from
\* prev.I, S2I_t), (prev.I, prob_i, I2R_t) and (S2I_t, rho, data[t]).
SameFactor(term, site) ==
  term.n = site.n /\ term.p = site.p /\ term.v = site.v

C3_LogDensity ==
  IsSet(bwd) =>
    /\ DOMAIN bwd = DOMAIN sites
    /\ \A name \in DOMAIN sites : SameFactor(bwd[name], sites[name])
    /\ sites.obs.observed
    /\ bwd.S2I.n = prev.S /\ bwd.S2I.p = ProbS(params.rate_s, prev.I)
    /\ bwd.I2R.n = prev.I /\ bwd.I2R.p = params.prob_i
    /\ bwd.obs.n = sites.S2I.v /\ bwd.obs.p = params.rho
    /\ bwd.obs.v = self.data[t]

C3_Witness ==
  /\ IsSet(bwd) /\ t >= 2
  /\ bwd.S2I.v >= 1 /\ bwd.I2R.v >= 1 /\ state.I # prev.I

\* C4: a forward step at t < duration conditions obs_t on data[t]; a step at
\* t >= duration declares obs_t unobserved and reads no entry of data, so
\* data is never indexed at a position >= duration.
C4_ObservationHorizon ==
  IsSet(sites) =>
    /\ error = ""
    /\ fwdRead < self.duration
    /\ sites.obs.name = <<"obs", t - 1>>
    /\ (t - 1 < self.duration =>
          /\ fwdRead = t - 1
          /\ sites.obs.observed
          /\ sites.obs.v = self.data[t])
    /\ (t - 1 >= self.duration =>
          /\ fwdRead = -1
          /\ ~sites.obs.observed)

C4_Witness ==
  IsSet(sites) /\ t - 1 = self.duration /\ ~sites.obs.observed

\* C5: over a forward step S does not increase and the cumulative recovered
\* count R = population - S - I does not decrease.
C5_Monotone ==
  IsSet(prev) =>
    /\ state.S <= prev.S
    /\ Recovered(state) >= Recovered(prev)

C5_Witness ==
  IsSet(prev) /\ state.S < prev.S /\ Recovered(state) > Recovered(prev)

\* C6: S2I_t is drawn with total count S before the update and I2R_t with
\* total count I before the update, so 0 <= S2I_t <= S_{t-1} and
\* 0 <= I2R_t <= I_{t-1}.
C6_DrawsBounded ==
  IsSet(sites) =>
    /\ sites.S2I.n = prev.S
    /\ sites.I2R.n = prev.I
    /\ 0 <= sites.S2I.v /\ sites.S2I.v <= prev.S
    /\ 0 <= sites.I2R.v /\ sites.I2R.v <= prev.I

C6_Witness ==
  IsSet(sites) /\ sites.S2I.v >= 1 /\ prev.I >= 1 /\ sites.I2R.v = prev.I

\* C7: construction fails with an AssertionError when recovery_time is not
\* a float or is <= 0; it succeeds only for a float > 0, and only then are
\* recovery_time and data stored on the model.
C7_Construction ==
  LET good == args.recovery_time.type = "float"
              /\ args.recovery_time.num * args.recovery_time.den > 0
  IN /\ pc = "new" => DOMAIN self = {}
     /\ pc = "failed" =>
          /\ ~good
          /\ error = "AssertionError"
          /\ "recovery_time" \notin DOMAIN self
          /\ "data" \notin DOMAIN self
     /\ pc = "constructed" =>
          /\ good
          /\ self.recovery_time = args.recovery_time
          /\ self.data = args.data
     /\ pc # "new" => (pc = "failed" <=> ~good)

C7_Witness ==
  pc = "failed" /\ args.recovery_time = PyInt(10)

\* C8: when every entry of data is 0, heuristic() raises nothing and every
\* entry of the auxiliary it returns is finite and non-negative.
C8_ZeroData ==
  (heurCalls >= 1 /\ AllZero(args.data)) =>
    /\ error = ""
    /\ IsSet(heur)
    /\ \A r \in DOMAIN heur.auxiliary : \A i \in DOMAIN heur.auxiliary[r] :
         /\ IsFinite(heur.auxiliary[r][i])
         /\ ~FLess(heur.auxiliary[r][i], Fix(0))

C8_Witness ==
  /\ heurCalls >= 1 /\ AllZero(args.data)
  /\ self.population = 1 /\ Len(args.data) = MaxDur

\* C9: the auxiliary returned by heuristic() has len(compartments) = 2 rows
\* and duration columns, and every entry is >= 0.5.
C9_ShapeAndFloor ==
  IsSet(heur) =>
    /\ Len(heur.auxiliary) = Len(self.compartments)
    /\ Len(heur.auxiliary) = 2
    /\ \A r \in DOMAIN heur.auxiliary :
         /\ Len(heur.auxiliary[r]) = self.duration
         /\ \A i \in DOMAIN heur.auxiliary[r] :
              FGeq(heur.auxiliary[r][i], Half)

C9_Witness ==
  /\ IsSet(heur) /\ self.duration = MaxDur
  /\ heur.auxiliary[1][1] = Half
  /\ FLess(Half, heur.auxiliary[2][MaxDur])

\* C10: a call of heuristic() leaves self.data, self.population and
\* self.recovery_time as they were, and a repeated call returns what the
\* call before it returned.
C10_HeuristicPure ==
  [][heurCalls' = heurCalls + 1 =>
       /\ self'.data = self.data
       /\ self'.population = self.population
       /\ self'.recovery_time = self.recovery_time
       /\ (heurCalls >= 1 => heur' = heur)]_vars

C10_Witness ==
  heurCalls = MaxCalls /\ ~AllZero(self.data) /\ self.data = args.data
====
